---------------------------- MODULE Spec2Model ----------------------------
(***************************************************************************)
(* A model of download.py (cpp-linter/clang-tools-wheel): the platform     *)
(* resolver get_platform_tag, the release fetcher get_release_info, the    *)
(* asset matcher find_wheel_asset, the downloader download_file and the    *)
(* run of main that chains them.                                           *)
(*                                                                         *)
(* Python strings are sequences of one-character strings, so that          *)
(* startswith, endswith, `in`, replace, split, join, lstrip, lower and the *)
(* ordering used by sorted() are computed as Python computes them.         *)
(* An optional value is a sequence of length at most one: None is << >>    *)
(* and a present value x is <<x>>.                                         *)
(***************************************************************************)
EXTENDS Integers, Sequences, FiniteSets, TLC

VARIABLES
  args,          \* the parsed command line: tool, version, output, platform, list_platforms
  pc,            \* where the run of main stands
  release_info,  \* main's release_info: None or <<[tag_name, assets]>>
  platform_tags, \* main's platform_tags: a sequence of tags
  wheel_asset,   \* main's wheel_asset: None or <<asset>>
  ret,           \* what main returned: None, or <<1>>
  exit_status,   \* the status sys.exit ended the process with: None while running
  stdout,        \* the lines printed, in order: [kind, text]
  caught,        \* the exception an except clause of main caught: None or <<e>>
  stages,        \* the components that ran, in order
  http_gets,     \* the URLs urlopen was called with, in order
  mkdirs,        \* the directories output_dir.mkdir was called on, in order
  downloads,     \* the urlretrieve calls, in order: [url, filename]
  files,         \* the files urlretrieve wrote
  probe          \* one call of a function on its own: its arguments and its result

vars == <<args, pc, release_info, platform_tags, wheel_asset, ret, exit_status,
          stdout, caught, stages, http_gets, mkdirs, downloads, files, probe>>

mainVars == <<args, pc, release_info, platform_tags, wheel_asset, ret, exit_status,
              stdout, caught, stages, http_gets, mkdirs, downloads, files>>

None == << >>
Some(x) == <<x>>
Val(o) == o[1]

(***************************************************************************)
(* Python's str operations.                                                *)
(***************************************************************************)
EmptyStr == << >>

\* The printable ASCII characters in code-point order, from 32 (space) to 126. The
\* double quote, the backslash and the backtick occur in no string of the model:
\* their places are held by names that equal no character.
Ascii ==
  <<" ","!","<quote>","#","$","%","&","'","(",")","*","+",",","-",".","/",
    "0","1","2","3","4","5","6","7","8","9",":",";","<","=",">","?",
    "@","A","B","C","D","E","F","G","H","I","J","K","L","M","N","O",
    "P","Q","R","S","T","U","V","W","X","Y","Z","[","<backslash>","]","^","_",
    "<backtick>","a","b","c","d","e","f","g","h","i","j","k","l","m","n","o",
    "p","q","r","s","t","u","v","w","x","y","z","{","|","}","~">>

\* ord(c), for a printable ASCII character.
Ord(c) == 31 + (CHOOSE i \in 1..Len(Ascii) : Ascii[i] = c)

\* c.lower(): 'A'..'Z' (65..90) move up by 32, every other character stays.
LowerChar(c) == IF Ord(c) >= 65 /\ Ord(c) <= 90 THEN Ascii[Ord(c) + 32 - 31] ELSE c

\* s.lower()
Lower(s) == [i \in 1..Len(s) |-> LowerChar(s[i])]

\* s.startswith(p)
StartsWith(s, p) == Len(p) <= Len(s) /\ SubSeq(s, 1, Len(p)) = p

\* s.endswith(p)
EndsWith(s, p) == Len(p) <= Len(s) /\ SubSeq(s, Len(s) - Len(p) + 1, Len(s)) = p

\* t in s
Contains(s, t) == \E i \in 0..(Len(s) - Len(t)) : SubSeq(s, i + 1, i + Len(t)) = t

\* s.lstrip(chars): the leading characters that are in chars are removed.
RECURSIVE LStrip(_, _)
LStrip(s, chars) ==
  IF s # EmptyStr /\ s[1] \in chars THEN LStrip(Tail(s), chars) ELSE s

\* s.find(t): the 0-based place of the first occurrence of t in s, -1 when none.
Find(s, t) ==
  IF ~Contains(s, t) THEN -1
  ELSE CHOOSE k \in 0..(Len(s) - Len(t)) :
         /\ SubSeq(s, k + 1, k + Len(t)) = t
         /\ \A j \in 0..(k - 1) : SubSeq(s, j + 1, j + Len(t)) # t

\* s.replace(old, new), old not empty: every non-overlapping occurrence, left to right.
RECURSIVE Replace(_, _, _)
Replace(s, old, new) ==
  IF Find(s, old) = -1 THEN s
  ELSE SubSeq(s, 1, Find(s, old)) \o new
         \o Replace(SubSeq(s, Find(s, old) + Len(old) + 1, Len(s)), old, new)

\* s.split(sep), sep not empty: the pieces between the occurrences of sep.
RECURSIVE Split(_, _)
Split(s, sep) ==
  IF Find(s, sep) = -1 THEN <<s>>
  ELSE <<SubSeq(s, 1, Find(s, sep))>>
         \o Split(SubSeq(s, Find(s, sep) + Len(sep) + 1, Len(s)), sep)

\* sep.join(parts)
RECURSIVE Join(_, _)
Join(sep, parts) ==
  IF parts = << >> THEN EmptyStr
  ELSE IF Len(parts) = 1 THEN parts[1]
  ELSE parts[1] \o sep \o Join(sep, Tail(parts))

\* a < b for two str: lexicographic by code point: at the first place where they
\* differ a has the smaller character, or a ends there and b does not.
StrLess(a, b) ==
  \E i \in 1..(Len(a) + 1) :
    /\ i <= Len(b)
    /\ SubSeq(a, 1, i - 1) = SubSeq(b, 1, i - 1)
    /\ \/ i = Len(a) + 1
       \/ i <= Len(a) /\ Ord(a[i]) < Ord(b[i])

\* sorted(S) for a set of str.
RECURSIVE Sorted(_)
Sorted(S) ==
  IF S = {} THEN << >>
  ELSE LET m == CHOOSE x \in S : \A y \in S \ {x} : StrLess(x, y)
       IN  <<m>> \o Sorted(S \ {m})

\* bool(s) for an optional str: None and "" are false.
Truthy(o) == o # None /\ Val(o) # EmptyStr

(* Literals of get_platform_tag *)
\* "x86_64"
K_x86_64 ==
  <<"x","8","6","_","6","4">>
\* "amd64"
K_amd64 ==
  <<"a","m","d","6","4">>
\* "aarch64"
K_aarch64 ==
  <<"a","a","r","c","h","6","4">>
\* "arm64"
K_arm64 ==
  <<"a","r","m","6","4">>
\* "armv7l"
K_armv7l ==
  <<"a","r","m","v","7","l">>
\* "i386"
K_i386 ==
  <<"i","3","8","6">>
\* "i686"
K_i686 ==
  <<"i","6","8","6">>
\* "ppc64le"
K_ppc64le ==
  <<"p","p","c","6","4","l","e">>
\* "s390x"
K_s390x ==
  <<"s","3","9","0","x">>
\* "darwin"
K_darwin ==
  <<"d","a","r","w","i","n">>
\* "linux"
K_linux ==
  <<"l","i","n","u","x">>
\* "windows"
K_windows ==
  <<"w","i","n","d","o","w","s">>
\* "musl"
K_musl ==
  <<"m","u","s","l">>
\* "macosx_11_0_arm64"
T_macosx_arm64 ==
  <<"m","a","c","o","s","x","_","1","1","_","0","_","a","r","m","6","4">>
\* "macosx_10_9_x86_64"
T_macosx_x86_64 ==
  <<"m","a","c","o","s","x","_","1","0","_","9","_","x","8","6","_","6","4">>
\* "manylinux_2_27_x86_64.manylinux_2_28_x86_64"
T_many_x86_64_228 ==
  <<"m","a","n","y","l","i","n","u","x","_","2","_","2","7","_","x","8","6","_","6","4",".","m",
    "a","n","y","l","i","n","u","x","_","2","_","2","8","_","x","8","6","_","6","4">>
\* "manylinux_2_17_x86_64.manylinux2014_x86_64"
T_many_x86_64_2014 ==
  <<"m","a","n","y","l","i","n","u","x","_","2","_","1","7","_","x","8","6","_","6","4",".","m",
    "a","n","y","l","i","n","u","x","2","0","1","4","_","x","8","6","_","6","4">>
\* "manylinux_2_26_aarch64.manylinux_2_28_aarch64"
T_many_aarch64_228 ==
  <<"m","a","n","y","l","i","n","u","x","_","2","_","2","6","_","a","a","r","c","h","6","4",".",
    "m","a","n","y","l","i","n","u","x","_","2","_","2","8","_","a","a","r","c","h","6","4">>
\* "manylinux_2_17_aarch64.manylinux2014_aarch64"
T_many_aarch64_2014 ==
  <<"m","a","n","y","l","i","n","u","x","_","2","_","1","7","_","a","a","r","c","h","6","4",".",
    "m","a","n","y","l","i","n","u","x","2","0","1","4","_","a","a","r","c","h","6","4">>
\* "manylinux_2_26_i686.manylinux_2_28_i686"
T_many_i686_228 ==
  <<"m","a","n","y","l","i","n","u","x","_","2","_","2","6","_","i","6","8","6",".","m","a","n",
    "y","l","i","n","u","x","_","2","_","2","8","_","i","6","8","6">>
\* "manylinux_2_17_i686.manylinux2014_i686"
T_many_i686_2014 ==
  <<"m","a","n","y","l","i","n","u","x","_","2","_","1","7","_","i","6","8","6",".","m","a","n",
    "y","l","i","n","u","x","2","0","1","4","_","i","6","8","6">>
\* "manylinux_2_26_ppc64le.manylinux_2_28_ppc64le"
T_many_ppc64le ==
  <<"m","a","n","y","l","i","n","u","x","_","2","_","2","6","_","p","p","c","6","4","l","e",".",
    "m","a","n","y","l","i","n","u","x","_","2","_","2","8","_","p","p","c","6","4","l","e">>
\* "manylinux_2_26_s390x.manylinux_2_28_s390x"
T_many_s390x ==
  <<"m","a","n","y","l","i","n","u","x","_","2","_","2","6","_","s","3","9","0","x",".","m","a",
    "n","y","l","i","n","u","x","_","2","_","2","8","_","s","3","9","0","x">>
\* "manylinux_2_31_armv7l"
T_many_armv7l ==
  <<"m","a","n","y","l","i","n","u","x","_","2","_","3","1","_","a","r","m","v","7","l">>
\* "musllinux_1_2_"
T_musllinux_prefix ==
  <<"m","u","s","l","l","i","n","u","x","_","1","_","2","_">>
\* "win_amd64"
T_win_amd64 ==
  <<"w","i","n","_","a","m","d","6","4">>
\* "win_arm64"
T_win_arm64 ==
  <<"w","i","n","_","a","r","m","6","4">>
\* "win32"
T_win32 ==
  <<"w","i","n","3","2">>
\* "Unsupported platform: "
M_unsupported ==
  <<"U","n","s","u","p","p","o","r","t","e","d"," ","p","l","a","t","f","o","r","m",":"," ">>

(* Literals of get_release_info *)
\* "cpp-linter/clang-tools-wheel"
K_repo ==
  <<"c","p","p","-","l","i","n","t","e","r","/","c","l","a","n","g","-","t","o","o","l","s","-",
    "w","h","e","e","l">>
\* "https://api.github.com/repos/"
U_api ==
  <<"h","t","t","p","s",":","/","/","a","p","i",".","g","i","t","h","u","b",".","c","o","m","/",
    "r","e","p","o","s","/">>
\* "/releases/tags/v"
U_tags ==
  <<"/","r","e","l","e","a","s","e","s","/","t","a","g","s","/","v">>
\* "/releases/latest"
U_latest ==
  <<"/","r","e","l","e","a","s","e","s","/","l","a","t","e","s","t">>
\* "Failed to fetch release info for version "
M_fetch_version ==
  <<"F","a","i","l","e","d"," ","t","o"," ","f","e","t","c","h"," ","r","e","l","e","a","s","e",
    " ","i","n","f","o"," ","f","o","r"," ","v","e","r","s","i","o","n"," ">>
\* "Failed to fetch latest release info: "
M_fetch_latest ==
  <<"F","a","i","l","e","d"," ","t","o"," ","f","e","t","c","h"," ","l","a","t","e","s","t"," ",
    "r","e","l","e","a","s","e"," ","i","n","f","o",":"," ">>
\* ": "
M_colon ==
  <<":"," ">>

(* Literals of find_wheel_asset and of the platform listing *)
\* "py2.py3-none-"
K_py2py3none ==
  <<"p","y","2",".","p","y","3","-","n","o","n","e","-">>
\* ".whl"
K_whl ==
  <<".","w","h","l">>
\* "clang-format"
K_clang_format ==
  <<"c","l","a","n","g","-","f","o","r","m","a","t">>
\* "clang-tidy"
K_clang_tidy ==
  <<"c","l","a","n","g","-","t","i","d","y">>

(* Values the environment supplies: platform.system(), platform.machine() *)
\* "Darwin"
R_Darwin ==
  <<"D","a","r","w","i","n">>
\* "Linux"
R_Linux ==
  <<"L","i","n","u","x">>
\* "Windows"
R_Windows ==
  <<"W","i","n","d","o","w","s">>
\* "FreeBSD"
R_FreeBSD ==
  <<"F","r","e","e","B","S","D">>
\* "AMD64"
R_AMD64 ==
  <<"A","M","D","6","4">>
\* "ARM64"
R_ARM64 ==
  <<"A","R","M","6","4">>
\* "riscv64"
R_riscv64 ==
  <<"r","i","s","c","v","6","4">>

(* Values the environment supplies: what ldd --version writes *)
\* "musl libc (x86_64)"
L_musl_stderr ==
  <<"m","u","s","l"," ","l","i","b","c"," ","(","x","8","6","_","6","4",")">>
\* "ldd (GNU libc) 2.31"
L_gnu_stdout ==
  <<"l","d","d"," ","(","G","N","U"," ","l","i","b","c",")"," ","2",".","3","1">>

(* Values the environment supplies: causes of a failed fetch (str(e)) *)
\* "HTTP Error 404: Not Found"
E_http404 ==
  <<"H","T","T","P"," ","E","r","r","o","r"," ","4","0","4",":"," ","N","o","t"," ","F","o","u",
    "n","d">>
\* "<urlopen error timed out>"
E_urlerror ==
  <<"<","u","r","l","o","p","e","n"," ","e","r","r","o","r"," ","t","i","m","e","d"," ","o","u",
    "t",">">>
\* "Expecting value: line 1 column 1 (char 0)"
E_json ==
  <<"E","x","p","e","c","t","i","n","g"," ","v","a","l","u","e",":"," ","l","i","n","e"," ","1",
    " ","c","o","l","u","m","n"," ","1"," ","(","c","h","a","r"," ","0",")">>
\* "[Errno 13] Permission denied"
E_mkdir ==
  <<"[","E","r","r","n","o"," ","1","3","]"," ","P","e","r","m","i","s","s","i","o","n"," ","d",
    "e","n","i","e","d">>
\* "[Errno 13] Permission denied: 'ldd'"
E_exec ==
  <<"[","E","r","r","n","o"," ","1","3","]"," ","P","e","r","m","i","s","s","i","o","n"," ","d",
    "e","n","i","e","d",":"," ","'","l","d","d","'">>

(* Values the user supplies: --version, --output, --platform *)
\* "20.1.8"
V_20_1_8 ==
  <<"2","0",".","1",".","8">>
\* "v20.1.8"
V_v20_1_8 ==
  <<"v","2","0",".","1",".","8">>
\* "1.0"
V_1_0 ==
  <<"1",".","0">>
\* "v1.0"
V_v1_0 ==
  <<"v","1",".","0">>
\* "."
O_dot ==
  <<".">>
\* "./wheels"
O_wheels ==
  <<".","/","w","h","e","e","l","s">>
\* "g-f"
P_g_f ==
  <<"g","-","f">>

(* Asset names of the releases *)
\* "clang-format-20.1.8-py2.py3-none-manylinux_2_17_x86_64.manylinux2014_x86_64.whl"
N_cf_h_2014 ==
  <<"c","l","a","n","g","-","f","o","r","m","a","t","-","2","0",".","1",".","8","-","p","y","2",
    ".","p","y","3","-","n","o","n","e","-","m","a","n","y","l","i","n","u","x","_","2","_","1",
    "7","_","x","8","6","_","6","4",".","m","a","n","y","l","i","n","u","x","2","0","1","4","_",
    "x","8","6","_","6","4",".","w","h","l">>
\* "clang_format-20.1.8-py2.py3-none-manylinux_2_27_x86_64.manylinux_2_28_x86_64.whl"
N_cf_u_228 ==
  <<"c","l","a","n","g","_","f","o","r","m","a","t","-","2","0",".","1",".","8","-","p","y","2",
    ".","p","y","3","-","n","o","n","e","-","m","a","n","y","l","i","n","u","x","_","2","_","2",
    "7","_","x","8","6","_","6","4",".","m","a","n","y","l","i","n","u","x","_","2","_","2","8",
    "_","x","8","6","_","6","4",".","w","h","l">>
\* "clang-format-20.1.8-py2.py3-none-win_amd64.whl"
N_cf_h_win ==
  <<"c","l","a","n","g","-","f","o","r","m","a","t","-","2","0",".","1",".","8","-","p","y","2",
    ".","p","y","3","-","n","o","n","e","-","w","i","n","_","a","m","d","6","4",".","w","h",
    "l">>
\* "clang_format-20.1.8-py2.py3-none-win_amd64.whl"
N_cf_u_win ==
  <<"c","l","a","n","g","_","f","o","r","m","a","t","-","2","0",".","1",".","8","-","p","y","2",
    ".","p","y","3","-","n","o","n","e","-","w","i","n","_","a","m","d","6","4",".","w","h",
    "l">>
\* "clang_tidy-20.1.8-py2.py3-none-win_amd64.whl"
N_ct_u_win ==
  <<"c","l","a","n","g","_","t","i","d","y","-","2","0",".","1",".","8","-","p","y","2",".","p",
    "y","3","-","n","o","n","e","-","w","i","n","_","a","m","d","6","4",".","w","h","l">>
\* "clang_format-20.1.8-py2.py3-none-win_amd64.whl.sha256"
N_cf_u_sha ==
  <<"c","l","a","n","g","_","f","o","r","m","a","t","-","2","0",".","1",".","8","-","p","y","2",
    ".","p","y","3","-","n","o","n","e","-","w","i","n","_","a","m","d","6","4",".","w","h","l",
    ".","s","h","a","2","5","6">>
\* "clang_format-py2.py3-none-win_amd64.whl"
N_cf_u_nover ==
  <<"c","l","a","n","g","_","f","o","r","m","a","t","-","p","y","2",".","p","y","3","-","n","o",
    "n","e","-","w","i","n","_","a","m","d","6","4",".","w","h","l">>
\* "clang-tidy-1.0-py2.py3-none-manylinux_2_17_x86_64.manylinux2014_x86_64.whl"
N_ct_h_2014_10 ==
  <<"c","l","a","n","g","-","t","i","d","y","-","1",".","0","-","p","y","2",".","p","y","3","-",
    "n","o","n","e","-","m","a","n","y","l","i","n","u","x","_","2","_","1","7","_","x","8","6",
    "_","6","4",".","m","a","n","y","l","i","n","u","x","2","0","1","4","_","x","8","6","_","6",
    "4",".","w","h","l">>
\* "clang-tidy-1.0-py2.py3-none-win_amd64.whl"
N_ct_h_win_10 ==
  <<"c","l","a","n","g","-","t","i","d","y","-","1",".","0","-","p","y","2",".","p","y","3","-",
    "n","o","n","e","-","w","i","n","_","a","m","d","6","4",".","w","h","l">>
\* "[Errno 2] No such file or directory: 'ldd'"
E_noent ==
  <<"[","E","r","r","n","o"," ","2","]"," ","N","o"," ","s","u","c","h"," ","f","i","l","e"," ",
    "o","r"," ","d","i","r","e","c","t","o","r","y",":"," ","'","l","d","d","'">>
\* "Command '['ldd', '--version']' timed out"
E_timeout ==
  <<"C","o","m","m","a","n","d"," ","'","[","'","l","d","d","'",","," ","'","-","-","v","e","r",
    "s","i","o","n","'","]","'"," ","t","i","m","e","d"," ","o","u","t">>
\* "9.9.9"
V_9_9_9 ==
  <<"9",".","9",".","9">>

(***************************************************************************)
(* Exceptions: [type, msg, context]; context is the exception that was     *)
(* being handled when this one was raised (__context__). Bases(t) are the  *)
(* classes whose except clause catches an exception of class t.            *)
(***************************************************************************)
Exc(type, msg) == [type |-> type, msg |-> msg, context |-> None]
ExcFrom(type, msg, e) == [type |-> type, msg |-> msg, context |-> Some(e)]

Bases(type) ==
  CASE type = "FileNotFoundError" -> {"FileNotFoundError", "OSError", "Exception"}
    [] type = "PermissionError"   -> {"PermissionError", "OSError", "Exception"}
    [] type = "TimeoutExpired"    -> {"TimeoutExpired", "SubprocessError", "Exception"}
    [] type = "URLError"          -> {"URLError", "OSError", "Exception"}
    [] type = "HTTPError"         -> {"HTTPError", "URLError", "OSError", "Exception"}
    [] type = "JSONDecodeError"   -> {"JSONDecodeError", "ValueError", "Exception"}
    [] type = "ValueError"        -> {"ValueError", "Exception"}
    [] type = "RuntimeError"      -> {"RuntimeError", "Exception"}
    [] OTHER                      -> {type, "Exception"}

\* except (classes): whether the clause catches an exception of this type.
Catches(classes, type) == Bases(type) \cap classes # {}

\* What a call does: it returns a value, or it raises.
Return(v) == [raised |-> None, value |-> Some(v)]
Raise(e) == [raised |-> Some(e), value |-> None]

(***************************************************************************)
(* get_platform_tag                                                        *)
(***************************************************************************)
\* arch_map.get(machine, machine) with the key i686 sent to i386: i386 -> i686 -> i386.
ArchMapGet_Cycle(machine) ==
  CASE machine = K_x86_64  -> K_x86_64
    [] machine = K_amd64   -> K_x86_64
    [] machine = K_aarch64 -> K_aarch64
    [] machine = K_arm64   -> K_arm64
    [] machine = K_armv7l  -> K_armv7l
    [] machine = K_i386    -> K_i686
    [] machine = K_i686    -> K_i386
    [] machine = K_ppc64le -> K_ppc64le
    [] machine = K_s390x   -> K_s390x
    [] OTHER               -> machine

\* The keys of arch_map.
ArchMapKeys ==
  {K_x86_64, K_amd64, K_aarch64, K_arm64, K_armv7l, K_i386, K_i686, K_ppc64le, K_s390x}

\* arch_map.get(machine, machine): a key's value, and any other name as it is.
ArchMapGet(machine) ==
  CASE machine = K_x86_64  -> K_x86_64
    [] machine = K_amd64   -> K_x86_64
    [] machine = K_aarch64 -> K_aarch64
    [] machine = K_arm64   -> K_arm64
    [] machine = K_armv7l  -> K_armv7l
    [] machine = K_i386    -> K_i686
    [] machine = K_i686    -> K_i686
    [] machine = K_ppc64le -> K_ppc64le
    [] machine = K_s390x   -> K_s390x
    [] OTHER               -> machine

\* The normalisation of a machine name: lower-cased, then looked up in arch_map.
NormalizeArch(machine_raw) == ArchMapGet(Lower(machine_raw))

\* A completed `ldd --version`, and one that subprocess.run could not run.
Completed(out, err, rc) ==
  [raises |-> None, stdout |-> out, stderr |-> err, returncode |-> rc]
RunRaises(type, msg) ==
  [raises |-> Some(Exc(type, msg)), stdout |-> EmptyStr, stderr |-> EmptyStr, returncode |-> 0]

\* What subprocess.run(["ldd", "--version"], capture_output=True, text=True,
\* check=False) can do: glibc's ldd writes its version to stdout and exits 0,
\* musl's writes to stderr and exits 1, a wrapper may name musl on stdout only;
\* ldd may be missing (FileNotFoundError), present but not executable
\* (PermissionError, an OSError), or the run may raise a SubprocessError.
LddOutcomes ==
  { Completed(L_gnu_stdout, EmptyStr, 0),
    Completed(EmptyStr, L_musl_stderr, 1),
    Completed(L_musl_stderr, EmptyStr, 0),
    RunRaises("FileNotFoundError", E_noent),
    RunRaises("TimeoutExpired", E_timeout),
    RunRaises("PermissionError", E_exec) }

\* Lines 46-57: the libc flavour, or the exception the try statement lets through.
DetectLibc(ldd) ==
  IF ldd.raises = None
  THEN Return(IF Contains(Lower(ldd.stderr), K_musl) THEN "musllinux" ELSE "manylinux")
  ELSE IF Catches({"FileNotFoundError", "SubprocessError"}, Val(ldd.raises).type)
       THEN Return("manylinux")
       ELSE Raise(Val(ldd.raises))

\* Lines 59-81 with the armv7l branch returning an empty list.
ManylinuxTags_Empty(arch) ==
  CASE arch = K_x86_64  -> Some(<<T_many_x86_64_228, T_many_x86_64_2014>>)
    [] arch = K_aarch64 -> Some(<<T_many_aarch64_228, T_many_aarch64_2014>>)
    [] arch = K_i686    -> Some(<<T_many_i686_228, T_many_i686_2014>>)
    [] arch = K_ppc64le -> Some(<<T_many_ppc64le>>)
    [] arch = K_s390x   -> Some(<<T_many_s390x>>)
    [] arch = K_armv7l  -> Some(<< >>)
    [] OTHER            -> None

\* Lines 59-81: the manylinux tags of an architecture, most preferred first; None
\* when no branch of the if/elif chain returns.
ManylinuxTags(arch) ==
  CASE arch = K_x86_64  -> Some(<<T_many_x86_64_228, T_many_x86_64_2014>>)
    [] arch = K_aarch64 -> Some(<<T_many_aarch64_228, T_many_aarch64_2014>>)
    [] arch = K_i686    -> Some(<<T_many_i686_228, T_many_i686_2014>>)
    [] arch = K_ppc64le -> Some(<<T_many_ppc64le>>)
    [] arch = K_s390x   -> Some(<<T_many_s390x>>)
    [] arch = K_armv7l  -> Some(<<T_many_armv7l>>)
    [] OTHER            -> None

\* Line 93: ValueError(f"Unsupported platform: {system} {machine}")
UnsupportedPlatform(system, machine) ==
  Exc("ValueError", M_unsupported \o system \o <<" ">> \o machine)

\* ldd is run on Linux only: the runs a system can see, None for no run.
LddRuns(system_raw) ==
  IF Lower(system_raw) = K_linux THEN {Some(l) : l \in LddOutcomes} ELSE {None}

\* get_platform_tag(), given what platform.system(), platform.machine() and the
\* run of ldd (on Linux) yield.
GetPlatformTag(system_raw, machine_raw, ldd) ==
  LET system  == Lower(system_raw)
      machine == Lower(machine_raw)
      arch    == NormalizeArch(machine_raw)
  IN  IF system = K_darwin
      THEN IF arch \in {K_arm64, K_aarch64}
           THEN Return(<<T_macosx_arm64>>)
           ELSE Return(<<T_macosx_x86_64>>)
      ELSE IF system = K_linux
      THEN LET libc == DetectLibc(Val(ldd))
           IN  IF libc.raised # None THEN Raise(Val(libc.raised))
               ELSE IF Val(libc.value) = "manylinux"
               THEN IF ManylinuxTags(arch) # None
                    THEN Return(Val(ManylinuxTags(arch)))
                    ELSE Raise(UnsupportedPlatform(system, machine))
               ELSE Return(<<T_musllinux_prefix \o arch>>)
      ELSE IF system = K_windows
      THEN IF arch = K_amd64 \/ arch = K_x86_64 THEN Return(<<T_win_amd64>>)
           ELSE IF arch = K_arm64 THEN Return(<<T_win_arm64>>)
           ELSE Return(<<T_win32>>)
      ELSE Raise(UnsupportedPlatform(system, machine))

(***************************************************************************)
(* get_release_info                                                        *)
(***************************************************************************)
\* A release as the API returns it, and an asset of it.
Asset(name, url, size) == [name |-> name, browser_download_url |-> url, size |-> size]
Release(tag_name, assets) == [tag_name |-> tag_name, assets |-> assets]

\* Lines 98-103: the URL of the request; a leading "v" of the version is dropped
\* and one "v" put back.
ReleaseUrl(repo, version) ==
  IF Truthy(version)
  THEN U_api \o repo \o U_tags \o LStrip(Val(version), {"v"})
  ELSE U_api \o repo \o U_latest

\* Lines 109-114 with the message of the latest release in both branches.
FetchErrorMessage_Generic(version, cause) == M_fetch_latest \o cause

\* Lines 109-114: the message of the RuntimeError, cause being str(e).
FetchErrorMessage(version, cause) ==
  IF Truthy(version)
  THEN M_fetch_version \o Val(version) \o M_colon \o cause
  ELSE M_fetch_latest \o cause

\* What urlopen(url) followed by json.loads can do: yield the release.
Responded(release) == [raises |-> None, body |-> Some(release)]
\* ... or raise: no network, a status that is not 200, a body that is not JSON.
FetchRaises(type, msg) == [raises |-> Some(Exc(type, msg)), body |-> None]

\* get_release_info(repo, version), given what the request yields.
GetReleaseInfo(repo, version, response) ==
  IF response.raises = None
  THEN Return(Val(response.body))
  ELSE IF Catches({"Exception"}, Val(response.raises).type)
       THEN Raise(ExcFrom("RuntimeError",
                        FetchErrorMessage(version, Val(response.raises).msg),
                        Val(response.raises)))
       ELSE Raise(Val(response.raises))

(***************************************************************************)
(* find_wheel_asset                                                        *)
(***************************************************************************)
Hyphen == <<"-">>
Underscore == <<"_">>

\* Line 125: tool.replace("-", "_")
ToolUnderscore(tool) == Replace(tool, Hyphen, Underscore)

\* Lines 127-135: a file name prefix: the tool name in one form, the version when
\* one is given, and "py2.py3-none-".
WheelPattern(toolname, version) ==
  toolname \o Hyphen
    \o (IF Truthy(version) THEN Val(version) \o Hyphen ELSE EmptyStr)
    \o K_py2py3none

\* Lines 141-148 with the underscored prefix left out.
AssetMatches_HyphenOnly(name, tool, version, platform_tag) ==
  /\ StartsWith(name, WheelPattern(tool, version))
  /\ EndsWith(name, K_whl)
  /\ Contains(name, platform_tag)

\* Lines 141-148: the test of one asset name against one platform tag.
AssetMatches(name, tool, version, platform_tag) ==
  /\ \/ StartsWith(name, WheelPattern(tool, version))
     \/ StartsWith(name, WheelPattern(ToolUnderscore(tool), version))
  /\ EndsWith(name, K_whl)
  /\ Contains(name, platform_tag)

\* Line 139: the inner loop from asset j on: the first asset that matches the tag,
\* 0 when none does.
RECURSIVE ScanAssets(_, _, _, _, _)
ScanAssets(assets, j, tool, version, platform_tag) ==
  IF j > Len(assets) THEN 0
  ELSE IF AssetMatches(assets[j].name, tool, version, platform_tag) THEN j
  ELSE ScanAssets(assets, j + 1, tool, version, platform_tag)

\* Line 138: the outer loop from tag i on.
RECURSIVE ScanTags(_, _, _, _, _)
ScanTags(assets, tool, tags, i, version) ==
  IF i > Len(tags) THEN 0
  ELSE LET j == ScanAssets(assets, 1, tool, version, tags[i])
       IN  IF j # 0 THEN j ELSE ScanTags(assets, tool, tags, i + 1, version)

\* The loops nested the other way round: the first asset that matches any tag.
FindWheelIndex_AssetMajor(assets, tool, tags, version) ==
  LET hits == {j \in 1..Len(assets) : \E i \in 1..Len(tags) :
                 AssetMatches(assets[j].name, tool, version, tags[i])}
  IN  IF hits = {} THEN 0 ELSE CHOOSE j \in hits : \A k \in hits : j <= k

\* The place in assets of the asset find_wheel_asset returns, 0 for None.
FindWheelIndex(assets, tool, tags, version) ==
  ScanTags(assets, tool, tags, 1, version)

\* find_wheel_asset(assets, tool, tags, version)
FindWheelAsset(assets, tool, tags, version) ==
  LET j == FindWheelIndex(assets, tool, tags, version)
  IN  IF j = 0 THEN None ELSE Some(assets[j])

(***************************************************************************)
(* The platform listing of main, lines 217-243                             *)
(***************************************************************************)
\* Lines 219-229: the assets of the tool that are wheels, in the release's order.
ToolAssets(assets, tool) ==
  SelectSeq(assets, LAMBDA a :
    /\ \/ StartsWith(a.name, tool \o Hyphen)
       \/ StartsWith(a.name, ToolUnderscore(tool) \o Hyphen)
    /\ EndsWith(a.name, K_whl))

\* Lines 235-236: name.replace(".whl", "").split("-")
NameParts(name) == Split(Replace(name, K_whl, EmptyStr), Hyphen)

\* Lines 230-240: the set of platform parts: the pieces from the fifth on, joined
\* again, of every name that has at least five pieces.
ListedPlatforms(assets, tool) ==
  LET wheels == ToolAssets(assets, tool)
  IN  { Join(Hyphen, SubSeq(NameParts(wheels[k].name), 5, Len(NameParts(wheels[k].name)))) :
          k \in {n \in 1..Len(wheels) : Len(NameParts(wheels[n].name)) >= 5} }

\* Line 243: print(f"  {platform_tag}")
Indent == <<" ", " ">>

(***************************************************************************)
(* pathlib: a path is its root flag and its components; "." and empty      *)
(* components are dropped, and joining an absolute path replaces the left  *)
(* operand.                                                                *)
(***************************************************************************)
Slash == <<"/">>

\* Path(s)
Path(s) ==
  [root  |-> StartsWith(s, Slash),
   parts |-> SelectSeq(Split(s, Slash), LAMBDA p : p # EmptyStr /\ p # <<".">>)]

\* p / name
PathJoin(p, name) ==
  IF Path(name).root THEN Path(name)
  ELSE [root |-> p.root, parts |-> p.parts \o Path(name).parts]

(***************************************************************************)
(* What the run of main is given.                                          *)
(***************************************************************************)
\* parser.add_argument("tool", choices=[...])
Tools == {K_clang_format, K_clang_tidy}

\* --version: absent, empty, with and without the "v", and one that has no release.
Versions == {None, Some(EmptyStr), Some(V_20_1_8), Some(V_v20_1_8), Some(V_1_0), Some(V_9_9_9)}

\* --output: the default and a directory that may not exist.
Outputs == {O_dot, O_wheels}

\* --platform: absent, or a tag.
PlatformOverrides == {None, Some(T_win_amd64)}

\* platform.system() and platform.machine()
Systems == {R_Darwin, R_Linux, R_Windows, R_FreeBSD}
Machines ==
  {K_x86_64, R_AMD64, K_amd64, K_aarch64, K_arm64, R_ARM64, K_armv7l, K_i386, K_i686,
   K_ppc64le, K_s390x, R_riscv64, EmptyStr}

\* The releases of the repository: one whose wheels carry the underscored and the
\* hyphenated tool name, with a checksum file beside a wheel, and an older one
\* whose wheels carry the hyphenated name.
Release_20_1_8 ==
  Release(V_v20_1_8,
          << Asset(N_cf_h_2014, "url/1", 1572864),
             Asset(N_cf_u_228, "url/2", 1625292),
             Asset(N_cf_u_win, "url/3", 1258291),
             Asset(N_ct_u_win, "url/4", 52428800),
             Asset(N_cf_u_sha, "url/5", 64) >>)
Release_1_0 ==
  Release(V_v1_0,
          << Asset(N_ct_h_2014_10, "url/6", 41943040),
             Asset(N_ct_h_win_10, "url/7", 39845888) >>)
Releases == {Release_20_1_8, Release_1_0}

\* The failures of the request: no network, a status that is not 200, a body that
\* is not JSON.
FetchFailures ==
  { FetchRaises("URLError", E_urlerror),
    FetchRaises("HTTPError", E_http404),
    FetchRaises("JSONDecodeError", E_json) }

\* What the request of a version can yield: a failure, or the release of that tag
\* (any release when the latest one is asked for).
FetchOutcomes(version) ==
  FetchFailures \cup
  { Responded(r) : r \in { q \in Releases :
        Truthy(version) => q.tag_name = <<"v">> \o LStrip(Val(version), {"v"}) } }

(***************************************************************************)
(* main                                                                    *)
(***************************************************************************)
Line(kind, text) == [kind |-> kind, text |-> text]

Emit(lines) == stdout' = stdout \o lines

\* Lines 289-291: except Exception as e: print(f"Error: {e}"); return 1
HandleException(e, before) ==
  /\ Emit(before \o <<Line("Error:", e.msg)>>)
  /\ caught' = Some(e)
  /\ ret' = Some(1)
  /\ pc' = "returned"

\* Lines 206-209
FetchingLine ==
  IF Truthy(args.version)
  THEN Line("Fetching release information for version", Val(args.version))
  ELSE Line("Fetching latest release information...", EmptyStr)

\* Lines 206-211: the release is fetched.
FetchOk ==
  /\ pc = "start"
  /\ \E response \in FetchOutcomes(args.version) :
       LET r == GetReleaseInfo(K_repo, args.version, response)
       IN  /\ r.raised = None
           /\ release_info' = r.value
  /\ stages' = Append(stages, "fetch")
  /\ http_gets' = Append(http_gets, ReleaseUrl(K_repo, args.version))
  /\ Emit(<<FetchingLine>>)
  /\ pc' = "fetched"
  /\ UNCHANGED <<args, caught, platform_tags, wheel_asset, ret, exit_status, mkdirs, downloads,
                 files, probe>>

\* FetchFails with one retry: the error is printed and the fetch is made again.
FetchFails_Retries ==
  /\ pc = "start"
  /\ \E response \in FetchOutcomes(args.version) :
       LET r == GetReleaseInfo(K_repo, args.version, response)
       IN  /\ r.raised # None
           /\ Emit(<<FetchingLine, Line("Error:", Val(r.raised).msg)>>)
           /\ caught' = r.raised
  /\ ret' = IF Len(stages) >= 1 THEN Some(1) ELSE ret
  /\ pc' = IF Len(stages) >= 1 THEN "returned" ELSE "start"
  /\ stages' = Append(stages, "fetch")
  /\ http_gets' = Append(http_gets, ReleaseUrl(K_repo, args.version))
  /\ UNCHANGED <<args, release_info, platform_tags, wheel_asset, exit_status, mkdirs,
                 downloads, files, probe>>

\* Lines 206-211 and 289-291: get_release_info raises, and main returns 1.
FetchFails ==
  /\ pc = "start"
  /\ \E response \in FetchOutcomes(args.version) :
       LET r == GetReleaseInfo(K_repo, args.version, response)
       IN  /\ r.raised # None
           /\ HandleException(Val(r.raised), <<FetchingLine>>)
  /\ stages' = Append(stages, "fetch")
  /\ http_gets' = Append(http_gets, ReleaseUrl(K_repo, args.version))
  /\ UNCHANGED <<args, release_info, platform_tags, wheel_asset, exit_status, mkdirs,
                 downloads, files, probe>>

\* Lines 213-244: the platforms of the tool are listed, and main returns None.
ListPlatforms ==
  /\ pc = "fetched"
  /\ args.list_platforms
  /\ LET rel == Val(release_info)
         tags == Sorted(ListedPlatforms(rel.assets, args.tool))
     IN  Emit(<<Line("Available platforms for", args.tool \o <<" ">> \o rel.tag_name)>>
              \o [k \in 1..Len(tags) |-> Line("platform", Indent \o tags[k])])
  /\ pc' = "returned"
  /\ UNCHANGED <<args, caught, release_info, platform_tags, wheel_asset, ret, exit_status, stages,
                 http_gets, mkdirs, downloads, files, probe>>

\* Lines 247-248: --platform stands for the detection.
OverridePlatform ==
  /\ pc = "fetched"
  /\ ~args.list_platforms
  /\ Truthy(args.platform)
  /\ platform_tags' = <<Val(args.platform)>>
  /\ pc' = "resolved"
  /\ UNCHANGED <<args, caught, release_info, wheel_asset, ret, exit_status, stdout, stages,
                 http_gets, mkdirs, downloads, files, probe>>

\* What get_platform_tag() can yield on the machines of Systems and Machines.
PlatformResults ==
  UNION { { GetPlatformTag(s, m, l) : m \in Machines, l \in LddRuns(s) } : s \in Systems }

\* Lines 250-252: the platform is detected.
DetectPlatformOk ==
  /\ pc = "fetched"
  /\ ~args.list_platforms
  /\ ~Truthy(args.platform)
  /\ \E r \in PlatformResults :
       /\ r.raised = None
       /\ platform_tags' = Val(r.value)
       /\ Emit(<<Line("Detected platform:", Val(r.value)[1])>>)
  /\ stages' = Append(stages, "resolve")
  /\ pc' = "resolved"
  /\ UNCHANGED <<args, caught, release_info, wheel_asset, ret, exit_status, http_gets, mkdirs,
                 downloads, files, probe>>

\* Lines 253-258: get_platform_tag raises ValueError, and main returns 1.
DetectPlatformUnsupported ==
  /\ pc = "fetched"
  /\ ~args.list_platforms
  /\ ~Truthy(args.platform)
  /\ \E r \in PlatformResults :
       /\ r.raised # None
       /\ Catches({"ValueError"}, Val(r.raised).type)
       /\ caught' = r.raised
       /\ Emit(<<Line("Error:", Val(r.raised).msg),
                 Line("Use --platform to specify manually, or --list-platforms to see available options", EmptyStr)>>)
  /\ ret' = Some(1)
  /\ stages' = Append(stages, "resolve")
  /\ pc' = "returned"
  /\ UNCHANGED <<args, release_info, platform_tags, wheel_asset, exit_status, http_gets,
                 mkdirs, downloads, files, probe>>

\* Lines 250-251 and 289-291: get_platform_tag raises another exception, and main
\* returns 1.
DetectPlatformError ==
  /\ pc = "fetched"
  /\ ~args.list_platforms
  /\ ~Truthy(args.platform)
  /\ \E r \in PlatformResults :
       /\ r.raised # None
       /\ ~Catches({"ValueError"}, Val(r.raised).type)
       /\ Catches({"Exception"}, Val(r.raised).type)
       /\ HandleException(Val(r.raised), << >>)
  /\ stages' = Append(stages, "resolve")
  /\ UNCHANGED <<args, release_info, platform_tags, wheel_asset, exit_status, http_gets,
                 mkdirs, downloads, files, probe>>

\* Lines 262-265: the asset find_wheel_asset returns for the release.
MatchedAsset ==
  FindWheelAsset(Val(release_info).assets, args.tool, platform_tags,
                 Some(LStrip(Val(release_info).tag_name, {"v"})))

\* Lines 262-267: an asset matches.
WheelFound ==
  /\ pc = "resolved"
  /\ MatchedAsset # None
  /\ wheel_asset' = MatchedAsset
  /\ stages' = Append(stages, "match")
  /\ pc' = "matched"
  /\ UNCHANGED <<args, caught, release_info, platform_tags, ret, exit_status, stdout, http_gets,
                 mkdirs, downloads, files, probe>>

\* NoWheelFound with the output directory made before the assets are searched.
NoWheelFound_Mkdir ==
  /\ pc = "resolved"
  /\ MatchedAsset = None
  /\ wheel_asset' = None
  /\ mkdirs' = Append(mkdirs, Path(args.output))
  /\ Emit(<<Line("No wheel found for", args.tool \o <<" ">> \o platform_tags[1])>>
          \o (IF Truthy(args.version)
              THEN <<Line("Requested version:", Val(args.version))>> ELSE << >>)
          \o <<Line("Available release:", Val(release_info).tag_name),
               Line("Use --list-platforms to see all available platforms", EmptyStr)>>)
  /\ ret' = Some(1)
  /\ stages' = Append(stages, "match")
  /\ pc' = "returned"
  /\ UNCHANGED <<args, caught, release_info, platform_tags, exit_status, http_gets,
                 downloads, files, probe>>

\* Lines 262-273: no asset matches, and main returns 1.
NoWheelFound ==
  /\ pc = "resolved"
  /\ MatchedAsset = None
  /\ wheel_asset' = None
  /\ Emit(<<Line("No wheel found for", args.tool \o <<" ">> \o platform_tags[1])>>
          \o (IF Truthy(args.version)
              THEN <<Line("Requested version:", Val(args.version))>> ELSE << >>)
          \o <<Line("Available release:", Val(release_info).tag_name),
               Line("Use --list-platforms to see all available platforms", EmptyStr)>>)
  /\ ret' = Some(1)
  /\ stages' = Append(stages, "match")
  /\ pc' = "returned"
  /\ UNCHANGED <<args, caught, release_info, platform_tags, exit_status, http_gets, mkdirs,
                 downloads, files, probe>>

\* Lines 276 and 280
OutputDir == Path(args.output)
Filename == PathJoin(OutputDir, Val(wheel_asset).name)

\* Line 284: the size in tenths of a megabyte, to the nearest tenth.
TenthsOfMB(size) == (size * 10 + 524288) \div 1048576

\* Lines 276-277 and 289-291: output_dir.mkdir raises, and main returns 1.
MkdirFails ==
  /\ pc = "matched"
  /\ mkdirs' = Append(mkdirs, OutputDir)
  /\ HandleException(Exc("PermissionError", E_mkdir), << >>)
  /\ stages' = Append(stages, "download")
  /\ UNCHANGED <<args, release_info, platform_tags, wheel_asset, exit_status, http_gets,
                 downloads, files, probe>>

\* Lines 276-285 and 156-160: the directory is made, the file is retrieved, and
\* main returns None.
DownloadOk ==
  /\ pc = "matched"
  /\ mkdirs' = Append(mkdirs, OutputDir)
  /\ downloads' = Append(downloads,
                         [url |-> Val(wheel_asset).browser_download_url, filename |-> Filename])
  /\ files' = files \cup {[path |-> Filename, complete |-> TRUE]}
  /\ Emit(<<Line("Downloading", Filename),
            Line("Successfully downloaded", Filename),
            Line("Wheel downloaded successfully!", EmptyStr),
            Line("File:", Filename),
            Line("Size:", <<TenthsOfMB(Val(wheel_asset).size)>>),
            Line("To install: pip install", Filename)>>)
  /\ stages' = Append(stages, "download")
  /\ pc' = "returned"
  /\ UNCHANGED <<args, caught, release_info, platform_tags, wheel_asset, ret, exit_status,
                 http_gets, probe>>

\* DownloadFails without the `return 1` of line 287: main returns None.
DownloadFails_NoReturn ==
  /\ pc = "matched"
  /\ mkdirs' = Append(mkdirs, Path(args.output))
  /\ downloads' = Append(downloads,
                         [url |-> Val(wheel_asset).browser_download_url,
                          filename |-> PathJoin(Path(args.output), Val(wheel_asset).name)])
  /\ \E partial \in BOOLEAN :
       files' = IF partial
                THEN files \cup {[path |-> PathJoin(Path(args.output), Val(wheel_asset).name),
                                  complete |-> FALSE]}
                ELSE files
  /\ Emit(<<Line("Downloading", PathJoin(Path(args.output), Val(wheel_asset).name)),
            Line("Failed to download", PathJoin(Path(args.output), Val(wheel_asset).name))>>)
  /\ stages' = Append(stages, "download")
  /\ pc' = "returned"
  /\ UNCHANGED <<args, caught, release_info, platform_tags, wheel_asset, ret, exit_status,
                 http_gets, probe>>

\* Lines 276-287 and 156-163: urlretrieve raises, download_file returns False, and
\* main returns 1. The transfer may have left a part of the file.
DownloadFails ==
  /\ pc = "matched"
  /\ mkdirs' = Append(mkdirs, OutputDir)
  /\ downloads' = Append(downloads,
                         [url |-> Val(wheel_asset).browser_download_url, filename |-> Filename])
  /\ \E partial \in BOOLEAN :
       files' = IF partial THEN files \cup {[path |-> Filename, complete |-> FALSE]} ELSE files
  /\ Emit(<<Line("Downloading", Filename), Line("Failed to download", Filename)>>)
  /\ ret' = Some(1)
  /\ stages' = Append(stages, "download")
  /\ pc' = "returned"
  /\ UNCHANGED <<args, caught, release_info, platform_tags, wheel_asset, exit_status, http_gets,
                 probe>>

\* Line 295: sys.exit(main()): None is status 0, an integer is the status.
Exit ==
  /\ pc = "returned"
  /\ exit_status' = Some(IF ret = None THEN 0 ELSE Val(ret))
  /\ pc' = "exited"
  /\ UNCHANGED <<args, caught, release_info, platform_tags, wheel_asset, ret, stdout, stages,
                 http_gets, mkdirs, downloads, files, probe>>

\* The state of a run of main that stands at `at` and has done nothing yet.
Idle(a, at) ==
  /\ args = a
  /\ pc = at
  /\ release_info = None
  /\ platform_tags = << >>
  /\ wheel_asset = None
  /\ ret = None
  /\ exit_status = None
  /\ stdout = << >>
  /\ caught = None
  /\ stages = << >>
  /\ http_gets = << >>
  /\ mkdirs = << >>
  /\ downloads = << >>
  /\ files = {}

NoProbe == [fn |-> "none"]

Init ==
  /\ \E t \in Tools, v \in Versions, o \in Outputs, p \in PlatformOverrides, l \in BOOLEAN :
       Idle([tool |-> t, version |-> v, output |-> o, platform |-> p, list_platforms |-> l],
            "start")
  /\ probe = NoProbe

Next ==
  \/ FetchOk
  \/ FetchFails
  \/ ListPlatforms
  \/ OverridePlatform
  \/ DetectPlatformOk
  \/ DetectPlatformUnsupported
  \/ DetectPlatformError
  \/ WheelFound
  \/ NoWheelFound
  \/ MkdirFails
  \/ DownloadOk
  \/ DownloadFails
  \/ Exit

Spec == Init /\ [][Next]_vars

(***************************************************************************)
(* get_platform_tag on its own: every system, machine and run of ldd.      *)
(***************************************************************************)
\* A run of main that never starts: the calls below are made outside of it.
Parked ==
  Idle([tool |-> K_clang_format, version |-> None, output |-> O_dot, platform |-> None,
        list_platforms |-> FALSE], "parked")

InitPlatform ==
  /\ Parked
  /\ \E s \in Systems, m \in Machines :
       probe = [fn |-> "get_platform_tag", system |-> s, machine |-> m, ldd |-> None,
                arch |-> None, result |-> None]

\* The call: arch is the local of line 36, result what the call returns or raises.
CallGetPlatformTag ==
  /\ probe.fn = "get_platform_tag"
  /\ probe.result = None
  /\ \E l \in LddRuns(probe.system) :
       probe' = [probe EXCEPT !.ldd = l,
                              !.arch = Some(NormalizeArch(probe.machine)),
                              !.result = Some(GetPlatformTag(probe.system, probe.machine, l))]
  /\ UNCHANGED mainVars

NextPlatform == CallGetPlatformTag

SpecPlatform == InitPlatform /\ [][NextPlatform]_vars

(***************************************************************************)
(* find_wheel_asset on its own: every list of assets and of tags.          *)
(***************************************************************************)
MaxAssets == 2
MaxTags == 2

\* The sequences of at most n distinct elements of S.
DistinctSeqs(S, n) ==
  UNION { { s \in [1..k -> S] : \A i, j \in 1..k : s[i] = s[j] => i = j } : k \in 0..n }

\* The assets a release can hold: wheels of both tools in both forms of the tool
\* name, for two platforms, a checksum file, and a wheel whose name has no version.
AssetPool ==
  { Asset(N_cf_h_2014, "url/1", 1572864),
    Asset(N_cf_u_228, "url/2", 1625292),
    Asset(N_cf_h_win, "url/3", 1258291),
    Asset(N_ct_u_win, "url/4", 52428800),
    Asset(N_cf_u_sha, "url/5", 64),
    Asset(N_cf_u_nover, "url/6", 1258291) }

\* The tags: two that get_platform_tag returns together, one of another system,
\* and one a user can give with --platform.
TagPool == {T_many_x86_64_228, T_many_x86_64_2014, T_win_amd64, P_g_f}

InitMatch ==
  /\ Parked
  /\ \E a \in DistinctSeqs(AssetPool, MaxAssets), t \in Tools,
        g \in DistinctSeqs(TagPool, MaxTags), v \in {None, Some(V_20_1_8)} :
       probe = [fn |-> "find_wheel_asset", assets |-> a, tool |-> t, tags |-> g,
                version |-> v, result |-> None]

\* The call: result is what find_wheel_asset returns, an asset or None.
CallFindWheelAsset ==
  /\ probe.fn = "find_wheel_asset"
  /\ probe.result = None
  /\ probe' = [probe EXCEPT !.result =
                 Some(FindWheelAsset(probe.assets, probe.tool, probe.tags, probe.version))]
  /\ UNCHANGED mainVars

NextMatch == CallFindWheelAsset

SpecMatch == InitMatch /\ [][NextMatch]_vars

(***************************************************************************)
(* Properties of find_wheel_asset, under SpecMatch.                        *)
(***************************************************************************)
\* The call of find_wheel_asset has returned.
MatchReturned == probe.fn = "find_wheel_asset" /\ probe.result # None

\* Asset j of the call matches tag i of the call.
ProbeMatch(i, j) ==
  AssetMatches(probe.assets[j].name, probe.tool, probe.version, probe.tags[i])

\* C1: find_wheel_asset returns None exactly when no asset matches any tag;
\* otherwise the asset it returns matches the earliest tag that any asset
\* matches, and is the first asset of the list that matches that tag: the order
\* of the tags decides before the order of the assets.
C1_TagOrderBeforeListOrder ==
  MatchReturned =>
    LET r == Val(probe.result)
        I == 1..Len(probe.tags)
        J == 1..Len(probe.assets)
    IN  /\ r = None <=> \A i \in I, j \in J : ~ProbeMatch(i, j)
        /\ r # None =>
             \E i \in I, j \in J :
               /\ probe.assets[j] = Val(r)
               /\ ProbeMatch(i, j)
               /\ \A i2 \in 1..(i - 1), j2 \in J : ~ProbeMatch(i2, j2)
               /\ \A j2 \in 1..(j - 1) : ~ProbeMatch(i, j2)

\* C1, its case: of two tags and two assets, the first asset matches the second
\* tag only, the second asset matches the first tag, and the second is returned.
C1_Witness ==
  /\ MatchReturned
  /\ Len(probe.tags) = 2
  /\ Len(probe.assets) = 2
  /\ ProbeMatch(2, 1)
  /\ ~ProbeMatch(1, 1)
  /\ ProbeMatch(1, 2)
  /\ probe.result = Some(Some(probe.assets[2]))

\* A file name with the tool name of its prefix in the other form: "clang-format-"
\* for "clang_format-" and back; a name with neither prefix as it is.
SwapForm(name, tool) ==
  LET hy == tool \o Hyphen
      un == ToolUnderscore(tool) \o Hyphen
  IN  IF StartsWith(name, hy) THEN un \o SubSeq(name, Len(hy) + 1, Len(name))
      ELSE IF StartsWith(name, un) THEN hy \o SubSeq(name, Len(un) + 1, Len(name))
      ELSE name

\* The assets with the names at the places S in the other form.
SwapAt(assets, S, tool) ==
  [j \in 1..Len(assets) |->
     IF j \in S THEN [assets[j] EXCEPT !.name = SwapForm(assets[j].name, tool)]
     ELSE assets[j]]

\* The place in the list of the asset the call returned, 0 for None.
ReturnedIndex ==
  IF Val(probe.result) = None THEN 0
  ELSE CHOOSE j \in 1..Len(probe.assets) : probe.assets[j] = Val(Val(probe.result))

\* Whichever names are put in the other form, the same place is selected.
SameSelectionInEitherForm ==
  \A S \in SUBSET (1..Len(probe.assets)) :
    FindWheelIndex(SwapAt(probe.assets, S, probe.tool), probe.tool, probe.tags,
                   probe.version) = ReturnedIndex

\* The tag begins with no text that ends the tool name's part up to and with its
\* separator ("clang-", "lang-", ..., "-", and the same with "_"): then no
\* occurrence of the tag in a file name lies across that separator.
ClearOfSeparator(tag, tool) ==
  \A form \in {tool, ToolUnderscore(tool)} :
    \A d \in {k \in 1..Len(tool) : tool[k] = "-"} :
      \A p \in 1..d : ~StartsWith(tag, SubSeq(form, p, d))

\* C5, as claimed: for every tool, version, list of tags and list of assets,
\* putting the tool name of any asset names in the other form does not change
\* the place find_wheel_asset selects.
C5_AnyTagsSameSelection == MatchReturned => SameSelectionInEitherForm

\* C5, amended: the same, for the lists of tags of which none begins with a text
\* that ends "clang-" or "clang_", which holds of every tag get_platform_tag
\* returns.
C5_SameSelectionInEitherForm ==
  (MatchReturned /\ \A i \in 1..Len(probe.tags) : ClearOfSeparator(probe.tags[i], probe.tool))
    => SameSelectionInEitherForm

\* C5, its case: an asset in the underscored form is selected from a list that
\* also holds an asset in the hyphenated form.
C5_Witness ==
  /\ MatchReturned
  /\ \A i \in 1..Len(probe.tags) : ClearOfSeparator(probe.tags[i], probe.tool)
  /\ Val(probe.result) # None
  /\ StartsWith(Val(Val(probe.result)).name, ToolUnderscore(probe.tool) \o Hyphen)
  /\ \E j \in 1..Len(probe.assets) : StartsWith(probe.assets[j].name, probe.tool \o Hyphen)

(***************************************************************************)
(* Properties of get_platform_tag, under SpecPlatform.                     *)
(***************************************************************************)
\* The call of get_platform_tag has returned or raised.
PlatformCalled == probe.fn = "get_platform_tag" /\ probe.result # None

ProbeSystem == Lower(probe.system)
ProbeArch == Val(probe.arch)
ProbeResult == Val(probe.result)

\* The libc detection came to a flavour: ldd was run and the try statement of
\* lines 46-57 let no exception through.
FlavourDetected == probe.ldd # None /\ DetectLibc(Val(probe.ldd)).raised = None
Flavour == Val(DetectLibc(Val(probe.ldd)).value)

\* The call came to the end of the platform policy: off Linux, or on Linux with a
\* flavour detected.
PolicyApplied == PlatformCalled /\ (ProbeSystem = K_linux => FlavourDetected)

\* The call returned a list of at least one tag.
ReturnedTags == ProbeResult.raised = None /\ Len(Val(ProbeResult.value)) >= 1

\* The call raised the error of line 93.
RaisedUnsupported ==
  /\ ProbeResult.raised # None
  /\ Val(ProbeResult.raised).type = "ValueError"
  /\ StartsWith(Val(ProbeResult.raised).msg, M_unsupported)
  /\ ProbeResult.value = None

\* C4, as claimed: for every key of the alias table on each of darwin, linux and
\* windows, with any detected flavour, a non-empty list is returned.
C4_EveryAliasKeyReturnsTags ==
  ( /\ PolicyApplied
    /\ ProbeSystem \in {K_darwin, K_linux, K_windows}
    /\ Lower(probe.machine) \in ArchMapKeys )
    => ReturnedTags

\* C4, amended: get_platform_tag returns a non-empty list of tags or raises the
\* unsupported-platform error, never an empty list or no value; it raises
\* exactly for a system other than darwin, linux and windows and for non-musl
\* Linux with an architecture that normalises to none of x86_64, aarch64, i686,
\* ppc64le, s390x and armv7l, which includes the alias-table key arm64; musl
\* Linux returns the one tag musllinux_1_2_<arch> for any architecture.
C4_TagsOrUnsupported ==
  PolicyApplied =>
    /\ ReturnedTags \/ RaisedUnsupported
    /\ ~(ReturnedTags /\ RaisedUnsupported)
    /\ RaisedUnsupported <=>
         \/ ProbeSystem \notin {K_darwin, K_linux, K_windows}
         \/ /\ ProbeSystem = K_linux
            /\ Flavour = "manylinux"
            /\ ProbeArch \notin {K_x86_64, K_aarch64, K_i686, K_ppc64le, K_s390x, K_armv7l}
    /\ (ProbeSystem = K_linux /\ Flavour = "musllinux") =>
         ProbeResult = Return(<<T_musllinux_prefix \o ProbeArch>>)

\* C4, its case: non-musl Linux on the alias-table key arm64 raises the
\* unsupported-platform error.
C4_Witness ==
  /\ PolicyApplied
  /\ ProbeSystem = K_linux
  /\ Flavour = "manylinux"
  /\ Lower(probe.machine) = K_arm64
  /\ RaisedUnsupported

\* C7: normalising a normalised machine name yields the same name: for every
\* machine name, a key of the alias table or not, normalize(normalize(m)) =
\* normalize(m).
C7_NormalizeIdempotent ==
  PlatformCalled => NormalizeArch(ProbeArch) = ProbeArch

\* C7, its case: an alias that the table renames (i386 to i686) was normalised.
C7_Witness ==
  /\ PlatformCalled
  /\ Lower(probe.machine) = K_i386
  /\ ProbeArch = K_i686

\* C9: on Linux the musl flavour is selected only when ldd ran and what it wrote
\* names musl; and when ldd is absent or its run fails in any way, the result is
\* the manylinux result for the architecture, the failure not being propagated.
C9_AnyLddFailureFallsBack ==
  (PlatformCalled /\ ProbeSystem = K_linux) =>
    /\ ProbeResult = Return(<<T_musllinux_prefix \o ProbeArch>>) =>
         /\ Val(probe.ldd).raises = None
         /\ \/ Contains(Lower(Val(probe.ldd).stderr), K_musl)
            \/ Contains(Lower(Val(probe.ldd).stdout), K_musl)
    /\ Val(probe.ldd).raises # None =>
         ProbeResult = IF ManylinuxTags(ProbeArch) # None
                       THEN Return(Val(ManylinuxTags(ProbeArch)))
                       ELSE Raise(UnsupportedPlatform(ProbeSystem, Lower(probe.machine)))

(***************************************************************************)
(* Properties of the run of main, under Spec.                              *)
(***************************************************************************)
\* A line of this kind was printed.
Printed(kind) == \E k \in 1..Len(stdout) : stdout[k].kind = kind

\* The texts of the printed lines of a kind, in order.
TextsOf(kind) ==
  LET sel == SelectSeq(stdout, LAMBDA l : l.kind = kind)
  IN  [k \in 1..Len(sel) |-> sel[k].text]

\* The run came to a detected failure: an exception reached an except clause of
\* main, no asset matched, or the download failed.
FailedRun ==
  \/ Printed("Error:")
  \/ Printed("No wheel found for")
  \/ Printed("Failed to download")

\* The run succeeded: the wheel was downloaded, or the platforms were listed.
SucceededRun ==
  \/ Printed("Wheel downloaded successfully!")
  \/ Printed("Available platforms for")

\* The platform-tag part of a wheel's file name: what follows "py2.py3-none-",
\* without the ".whl" at the end.
PlatformSubstring(name) ==
  SubSeq(name, Find(name, K_py2py3none) + Len(K_py2py3none) + 1, Len(name) - Len(K_whl))

\* C2: in platform-listing mode the printed platform lines are exactly the
\* platform-tag parts of the names of the tool's wheels (for example win_amd64
\* for clang-tidy-1.0-py2.py3-none-win_amd64.whl), each once, in ascending order.
C2_ListingPrintsPlatformTags ==
  (Printed("Available platforms for") /\ pc \in {"returned", "exited"}) =>
    LET wheels == ToolAssets(Val(release_info).assets, args.tool)
        expected == Sorted({PlatformSubstring(wheels[k].name) : k \in 1..Len(wheels)})
    IN  TextsOf("platform") = [k \in 1..Len(expected) |-> Indent \o expected[k]]

\* C3: a run ends with status 0 when it succeeded (the wheel was downloaded or the
\* platforms were listed) and with status 1 when it came to a detected failure
\* (unsupported platform, no matching asset, download failure, release-fetch
\* failure, any other exception); every run is one or the other, and no failed
\* run ends with status 0.
C3_ExitStatus ==
  pc = "exited" =>
    /\ SucceededRun # FailedRun
    /\ SucceededRun => exit_status = Some(0)
    /\ FailedRun => exit_status = Some(1)

\* C3, its case: a run whose download failed has ended with status 1.
C3_Witness ==
  /\ pc = "exited"
  /\ Printed("Failed to download")
  /\ exit_status = Some(1)

\* The release fetch of the run failed: get_release_info raised.
FetchFailed == http_gets # << >> /\ release_info = None /\ pc # "start"

\* C6: when the fetch of a requested version fails, get_release_info raises a
\* RuntimeError whose message holds the requested version and the cause, and is
\* not the message of the latest release; that message is raised only when no
\* version was requested. (A version is requested when --version is given a
\* non-empty value.)
C6_FetchErrorNamesVersion ==
  FetchFailed =>
    /\ caught # None
    /\ Val(caught).type = "RuntimeError"
    /\ Val(caught).context # None
    /\ EndsWith(Val(caught).msg, M_colon \o Val(Val(caught).context).msg)
    /\ Truthy(args.version) =>
         /\ StartsWith(Val(caught).msg, M_fetch_version \o Val(args.version) \o M_colon)
         /\ ~StartsWith(Val(caught).msg, M_fetch_latest)
    /\ StartsWith(Val(caught).msg, M_fetch_latest) => ~Truthy(args.version)
    /\ ~Truthy(args.version) => StartsWith(Val(caught).msg, M_fetch_latest)

\* C6, its case: the version 9.9.9, which has no release, was requested and the
\* request ended in 404.
C6_Witness ==
  /\ FetchFailed
  /\ args.version = Some(V_9_9_9)
  /\ caught # None
  /\ Val(caught).context # None
  /\ Val(Val(caught).context).type = "HTTPError"

\* The number the specification gives a component: Platform Resolver 1, Release
\* Fetcher 2, Asset Matcher 3, Downloader 4.
StageNumber(stage) ==
  CASE stage = "resolve" -> 1 [] stage = "fetch" -> 2 [] stage = "match" -> 3
    [] stage = "download" -> 4

\* The place of a component in the order main runs them.
StagePlace(stage) ==
  CASE stage = "fetch" -> 1 [] stage = "resolve" -> 2 [] stage = "match" -> 3
    [] stage = "download" -> 4

\* C8, as claimed: the stages run in the order Platform Resolver, Release
\* Fetcher, Asset Matcher, Downloader: when a stage runs, every lower-numbered
\* stage has run before it.
C8_NumberedOrder ==
  \A k \in 1..Len(stages) :
    \A n \in 1..(StageNumber(stages[k]) - 1) :
      \E k2 \in 1..(k - 1) : StageNumber(stages[k2]) = n

\* The stages ran in the order Release Fetcher, Platform Resolver, Asset Matcher,
\* Downloader, none twice, and none before the ones ahead of it, of which only
\* the Platform Resolver may be left out, when --platform is given; in listing
\* mode none runs after the Release Fetcher.
StagesInOrder ==
  /\ \A k \in 1..(Len(stages) - 1) : StagePlace(stages[k]) < StagePlace(stages[k + 1])
  /\ \A k \in 1..Len(stages) :
       \A n \in 1..(StagePlace(stages[k]) - 1) :
         \/ \E k2 \in 1..(k - 1) : StagePlace(stages[k2]) = n
         \/ n = 2 /\ Truthy(args.platform)
  /\ args.list_platforms => Len(stages) <= 1

\* C8, amended: within one run the stages run in the order Release Fetcher,
\* Platform Resolver (left out when --platform is given), Asset Matcher,
\* Downloader: no stage starts before the ones ahead of it in that order have
\* finished, no stage runs twice, and after a failure at any stage no stage
\* runs and the run ends with a non-zero status.
C8_StageOrder ==
  [][ /\ StagesInOrder'
      /\ FailedRun => (stages' = stages /\ FailedRun')
      /\ (FailedRun' /\ pc' = "exited") => (exit_status' # None /\ exit_status' # Some(0))
    ]_vars

\* C8, its case: all four stages ran, the last one failed, and the run ended
\* with status 1.
C8_Witness ==
  /\ stages = <<"fetch", "resolve", "match", "download">>
  /\ Printed("Failed to download")
  /\ exit_status = Some(1)

\* C10: the output directory is made and a download attempted only after an
\* asset was matched: a run in listing mode, or with a failed fetch, an
\* unsupported platform or no matching asset, makes no directory, attempts no
\* download and writes no file; a download is attempted at most once, after the
\* directory was made, from the matched asset's URL to the output directory
\* joined with the asset's exact name.
C10_FilesystemAfterMatch ==
  /\ ( \/ wheel_asset = None
       \/ args.list_platforms
       \/ release_info = None
       \/ Printed("Use --platform to specify manually, or --list-platforms to see available options")
       \/ Printed("No wheel found for") )
       => (mkdirs = << >> /\ downloads = << >> /\ files = {})
  /\ Len(mkdirs) <= 1
  /\ Len(downloads) <= 1
  /\ downloads # << >> =>
       /\ mkdirs = <<Path(args.output)>>
       /\ downloads[1].url = Val(wheel_asset).browser_download_url
       /\ downloads[1].filename =
            [root |-> Path(args.output).root,
             parts |-> Path(args.output).parts \o <<Val(wheel_asset).name>>]
  /\ \A f \in files : f.path = downloads[1].filename
  /\ (Printed("Successfully downloaded") \/ Printed("Failed to download")) =>
       Len(downloads) = 1

\* C10, its case: a run with --output ./wheels downloaded the matched asset.
C10_Witness ==
  /\ pc = "exited"
  /\ args.output = O_wheels
  /\ Len(downloads) = 1
  /\ files = {[path |-> downloads[1].filename, complete |-> TRUE]}
============================================================================
